---- MODULE Spec2Model ----
(***************************************************************************)
(* A model of the workflow engine of src/workflow/__init__.py: the scope   *)
(* table filled by the add_* registrations, the context dictionary, the    *)
(* phase runner run_steps, the step executor _run_step with its retry      *)
(* loop, the conditional and the parallel wrappers, and the run            *)
(* controller with its try / except / finally.                             *)
(*                                                                         *)
(* A delegate (a user callable) is modelled by the tuple of its parameter  *)
(* names, which is all the engine reads of it (inspect.signature).  What a *)
(* delegate does is left open: every attempt either returns one of         *)
(* Results or fails (the delegate raised, or asyncio.wait_for timed out).  *)
(* Delegates do not write the context themselves, every delegate is called *)
(* with as many arguments as it declares parameters, and the closures      *)
(* cond_step and parallel_step are registered with timeout = None.         *)
(***************************************************************************)
EXTENDS Integers, Sequences, FiniteSets, TLC

\* ------------------------------------------------------------ bounds
MaxSteps == 3       \* registrations per workflow, all scopes together
MaxRetries == 1     \* largest retries value registered
MaxPar == 2         \* delegates of one parallel step

\* ------------------------------------------------------ the data model
Scopes == {"normal", "error", "exit"}

\* Python values held by the context or returned by delegates.
BoolV(b) == [b |-> b]
NoneV == [none |-> TRUE]
ListV(l) == [list |-> l]
ErrRec(n, e) == [step |-> n, error |-> e]
\* The context object itself, passed by reference to a delegate that
\* declares a parameter named ctx.
CtxRef == [ref |-> "ctx"]

\* Python truthiness of a value.
Truthy(v) ==
    IF "b" \in DOMAIN v THEN v.b
    ELSE IF "list" \in DOMAIN v THEN Len(v.list) > 0
    ELSE IF "none" \in DOMAIN v THEN FALSE
    ELSE TRUE

\* An exception, identified by its type and by the step that raised it.
Err(k, sc, i) == [kind |-> k, scope |-> sc, idx |-> i]
NoErr == Err("none", "", 0)
OkRes == Err("ok", "", 0)
NotRun == Err("notrun", "", 0)
Returned == Err("returned", "", 0)

\* f'{scope.value}_error'
ErrKey(sc) == IF sc = "normal" THEN "normal_error"
              ELSE IF sc = "error" THEN "error_error" ELSE "exit_error"

\* Step names: any string but the engine's own keys of the context.
Names == {"a", "b", "ctx"}
\* What a delegate may return.
Results == {BoolV(TRUE), BoolV(FALSE)}
\* The parameter lists of the registered delegates.
Funcs == {<<>>, <<"a">>, <<"ctx">>}
\* The keyword arguments of run.
Kwargs == {<<>>, [a |-> BoolV(TRUE)]}

VARIABLES
    steps,      \* self.steps: scope -> sequence of step descriptors
    ctx,        \* self.ctx
    pc,         \* where run is: "new", "loop", "await", "gather", "done"
    scope,      \* the scope run_steps is iterating
    idx,        \* the position of run_steps in steps[scope]
    att,        \* i of the retry loop of the step's _run_step
    inner,      \* i of the retry loop of a conditional step's inner _run_step
    call,       \* the delegate being awaited: its parameters and arguments
    tasks,      \* the futures a parallel step is gathering
    orphans,    \* delegates still running whose parallel step gave up on them
    pend,       \* the exception run re-raises once its finally block ends
    outcome,    \* how run ended: NoErr (not yet), Returned, or the exception
    \* history, read by the properties only
    startLog,   \* scope -> the steps started, in the order they started
    phaseRes,   \* scope -> NotRun, OkRes, or the exception it propagated
    broke,      \* scope -> the phase left its loop through the cancel break
    stepRes,    \* the step last started: "none", "running", "ok", "failed"
    outerCalls, \* invocations of its step['func'] by _run_step
    calls,      \* invocations of its leaf delegates
    fails,      \* failed attempts of its step['func']
    lastRet,    \* the value its last successful attempt returned
    lastStep,   \* its scope and its position in steps[scope]
    ctxAtStart, \* the context when run_steps started it
    failLog,    \* scope -> the steps that failed, in the order they failed
    doneLog,    \* the delegates of the current gather that returned, in the
                \* order they returned, each with its value
    launched,   \* delegates started by parallel steps, over the whole run
    finished,   \* those of them that ran to their end
    cancelInfo  \* the first cancel() of a run: the scope then running, the
                \* steps it had started, whether one was running, the context

prog == <<steps, ctx, pc, scope, idx, att, inner, call, tasks, orphans, pend, outcome>>
hist == <<startLog, phaseRes, broke, stepRes, outerCalls, calls, fails, lastRet,
          lastStep, ctxAtStart, failLog, doneLog, launched, finished, cancelInfo>>
vars == <<prog, hist>>

\* The run-time state as one record, so that the nested calls of the code
\* compose as operators.
Cur == [ctx |-> ctx, pc |-> pc, scope |-> scope, idx |-> idx, att |-> att,
        inner |-> inner, call |-> call, tasks |-> tasks, orphans |-> orphans,
        pend |-> pend, outcome |-> outcome, startLog |-> startLog,
        phaseRes |-> phaseRes, broke |-> broke, stepRes |-> stepRes,
        outerCalls |-> outerCalls, calls |-> calls, fails |-> fails,
        lastRet |-> lastRet, lastStep |-> lastStep, ctxAtStart |-> ctxAtStart,
        failLog |-> failLog, doneLog |-> doneLog, launched |-> launched,
        finished |-> finished, cancelInfo |-> cancelInfo]

Becomes(s) ==
    /\ ctx' = s.ctx /\ pc' = s.pc /\ scope' = s.scope /\ idx' = s.idx
    /\ att' = s.att /\ inner' = s.inner /\ call' = s.call /\ tasks' = s.tasks
    /\ orphans' = s.orphans /\ pend' = s.pend /\ outcome' = s.outcome
    /\ startLog' = s.startLog /\ phaseRes' = s.phaseRes /\ broke' = s.broke
    /\ stepRes' = s.stepRes /\ outerCalls' = s.outerCalls /\ calls' = s.calls
    /\ fails' = s.fails /\ lastRet' = s.lastRet /\ lastStep' = s.lastStep
    /\ ctxAtStart' = s.ctxAtStart /\ failLog' = s.failLog /\ doneLog' = s.doneLog
    /\ launched' = s.launched /\ finished' = s.finished
    /\ cancelInfo' = s.cancelInfo

NoCall == [func |-> <<>>, args |-> <<>>, branch |-> "none"]
NoCancel == [scope |-> "none", started |-> 0, busy |-> FALSE,
             ctx |-> [cancel |-> BoolV(FALSE), error |-> BoolV(FALSE)]]

\* ------------------------------------------------------- construction
Init ==
    /\ steps = [sc \in Scopes |-> <<>>]
    /\ ctx = [cancel |-> BoolV(FALSE), error |-> BoolV(FALSE)]
    /\ pc = "new" /\ scope = "normal" /\ idx = 1 /\ att = 0 /\ inner = 0
    /\ call = NoCall /\ tasks = <<>> /\ orphans = 0
    /\ pend = NoErr /\ outcome = NoErr
    /\ startLog = [sc \in Scopes |-> <<>>]
    /\ phaseRes = [sc \in Scopes |-> NotRun]
    /\ broke = [sc \in Scopes |-> FALSE]
    /\ stepRes = "none" /\ outerCalls = 0 /\ calls = 0 /\ fails = 0
    /\ lastRet = NoneV
    /\ lastStep = [scope |-> "none", idx |-> 0]
    /\ ctxAtStart = ctx
    /\ failLog = [sc \in Scopes |-> <<>>]
    /\ doneLog = <<>> /\ launched = 0 /\ finished = 0
    /\ cancelInfo = NoCancel

\* ------------------------------------------------------- registration
NSteps == Len(steps["normal"]) + Len(steps["error"]) + Len(steps["exit"])

\* self.steps[scope.value].append({...}); func is the plain delegate, or the
\* closure cond_step / parallel_step over its delegates.
Register(sc, name, kind, funcs, retries, coe) ==
    /\ pc = "new"
    /\ NSteps < MaxSteps
    /\ steps' = [steps EXCEPT ![sc] = Append(@,
                    [name |-> name, kind |-> kind, funcs |-> funcs,
                     retries |-> retries, cont_on_err |-> coe])]
    /\ UNCHANGED <<ctx, pc, scope, idx, att, inner, call, tasks, orphans, pend, outcome>>
    /\ UNCHANGED hist

add_step(func, sc, name, retries, coe) ==
    Register(sc, name, "plain", <<func>>, retries, coe)

add_error_step(func, name, retries) ==
    add_step(func, "error", name, retries, FALSE)

add_exit_step(func, name, retries) ==
    add_step(func, "exit", name, retries, FALSE)

add_cond_step(name, on_true_step, on_false_step, sc, retries) ==
    Register(sc, name, "cond", <<on_true_step, on_false_step>>, retries, FALSE)

add_parallel_steps(name, funcs, sc, retries) ==
    Register(sc, name, "par", funcs, retries, FALSE)

\* ------------------------------------------------- argument resolution
Get(c, k) == IF k \in DOMAIN c THEN c[k] ELSE NoneV

\* A resolver that looks every parameter up under the first parameter's name.
GetStepArgsFirstName(func, c) ==
    IF \E i \in DOMAIN func : func[i] = "ctx"
    THEN [ok |-> TRUE, args |-> <<CtxRef>>]
    ELSE IF \A i \in DOMAIN func : func[i] \in DOMAIN c
         THEN [ok |-> TRUE, args |-> [i \in DOMAIN func |-> c[func[1]]]]
         ELSE [ok |-> FALSE, args |-> <<>>]

\* func is the delegate's parameter list.
_get_step_args(func, c) ==
    IF \E i \in DOMAIN func : func[i] = "ctx"
    THEN [ok |-> TRUE, args |-> <<CtxRef>>]
    ELSE IF \A i \in DOMAIN func : func[i] \in DOMAIN c
         THEN [ok |-> TRUE, args |-> [i \in DOMAIN func |-> c[func[i]]]]
         ELSE [ok |-> FALSE, args |-> <<>>]

\* ------------------------------------------------------ run controller
\* A controller whose handler runs after a NORMAL phase that did not fail
\* (the except clause written as an else clause).
EndPhaseErrorOnSuccess(s, r) ==
    LET s1 == [s EXCEPT !.phaseRes[s.scope] = r, !.idx = 1, !.pc = "loop",
                        !.call = NoCall, !.tasks = <<>>]
    IN  IF s.scope = "normal"
        THEN IF r = OkRes
             THEN [s1 EXCEPT !.scope = "error"]
             ELSE [s1 EXCEPT !.ctx = ("error" :> BoolV(TRUE)) @@ s1.ctx,
                             !.scope = "exit"]
        ELSE IF s.scope = "error"
        THEN [s1 EXCEPT !.scope = "exit", !.pend = IF r = OkRes THEN NoErr ELSE r]
        ELSE [s1 EXCEPT !.pc = "done",
                        !.outcome = IF r # OkRes THEN r
                                    ELSE IF s.pend # NoErr THEN s.pend
                                    ELSE Returned]

\* A controller that never re-raises the NORMAL failure: it always goes on
\* to the ERROR phase.
EndPhaseNoReraise(s, r) ==
    LET s1 == [s EXCEPT !.phaseRes[s.scope] = r, !.idx = 1, !.pc = "loop",
                        !.call = NoCall, !.tasks = <<>>]
    IN  IF s.scope = "normal"
        THEN IF r = OkRes
             THEN [s1 EXCEPT !.scope = "exit"]
             ELSE [s1 EXCEPT !.ctx = ("error" :> BoolV(TRUE)) @@ s1.ctx,
                             !.scope = "error"]
        ELSE IF s.scope = "error"
        THEN [s1 EXCEPT !.scope = "exit", !.pend = IF r = OkRes THEN NoErr ELSE r]
        ELSE [s1 EXCEPT !.pc = "done",
                        !.outcome = IF r # OkRes THEN r
                                    ELSE IF s.pend # NoErr THEN s.pend
                                    ELSE Returned]

\* A controller that raises the pending ERROR failure in preference to the
\* failure of the EXIT phase.
EndPhasePendingFirst(s, r) ==
    LET s1 == [s EXCEPT !.phaseRes[s.scope] = r, !.idx = 1, !.pc = "loop",
                        !.call = NoCall, !.tasks = <<>>]
    IN  IF s.scope = "normal"
        THEN IF r = OkRes
             THEN [s1 EXCEPT !.scope = "exit"]
             ELSE LET s2 == [s1 EXCEPT !.ctx = ("error" :> BoolV(TRUE)) @@ s1.ctx]
                  IN  IF Len(steps["error"]) = 0 /\ Len(steps["exit"]) = 0
                      THEN [s2 EXCEPT !.pend = r, !.scope = "exit"]
                      ELSE [s2 EXCEPT !.scope = "error"]
        ELSE IF s.scope = "error"
        THEN [s1 EXCEPT !.scope = "exit", !.pend = IF r = OkRes THEN NoErr ELSE r]
        ELSE [s1 EXCEPT !.pc = "done",
                        !.outcome = IF s.pend # NoErr THEN s.pend
                                    ELSE IF r # OkRes THEN r
                                    ELSE Returned]

\* What run does when run_steps(sc) returns (r = OkRes) or raises r.
EndPhase(s, r) ==
    LET s1 == [s EXCEPT !.phaseRes[s.scope] = r, !.idx = 1, !.pc = "loop",
                        !.call = NoCall, !.tasks = <<>>]
    IN  IF s.scope = "normal"
        THEN IF r = OkRes
             THEN [s1 EXCEPT !.scope = "exit"]
             ELSE LET s2 == [s1 EXCEPT !.ctx = ("error" :> BoolV(TRUE)) @@ s1.ctx]
                  IN  IF Len(steps["error"]) = 0 /\ Len(steps["exit"]) = 0
                      THEN [s2 EXCEPT !.pend = r, !.scope = "exit"]
                      ELSE [s2 EXCEPT !.scope = "error"]
        ELSE IF s.scope = "error"
        THEN [s1 EXCEPT !.scope = "exit", !.pend = IF r = OkRes THEN NoErr ELSE r]
        ELSE [s1 EXCEPT !.pc = "done",
                        !.outcome = IF r # OkRes THEN r
                                    ELSE IF s.pend # NoErr THEN s.pend
                                    ELSE Returned]

\* ------------------------------------------------------- phase runner
TheStep(s) == steps[s.scope][s.idx]

\* A phase runner that skips the step after a successful one.
StepOkSkipsNext(s, v) ==
    [s EXCEPT !.ctx = (steps[s.scope][s.idx].name :> v) @@ s.ctx,
              !.idx = s.idx + 2, !.pc = "loop", !.call = NoCall, !.tasks = <<>>,
              !.stepRes = "ok", !.lastRet = v]

\* self.ctx[step['name']] = result, and on to the next step.
StepOk(s, v) ==
    [s EXCEPT !.ctx = (TheStep(s).name :> v) @@ s.ctx,
              !.idx = s.idx + 1, !.pc = "loop", !.call = NoCall, !.tasks = <<>>,
              !.stepRes = "ok", !.lastRet = v]

\* A phase runner that re-raises whatever cont_on_err says.
StepFailedAlwaysAborts(s, e) ==
    LET s1 == [s EXCEPT !.ctx = (ErrKey(s.scope) :> ErrRec(TheStep(s).name, e)) @@ s.ctx,
                        !.stepRes = "failed", !.call = NoCall, !.tasks = <<>>,
                        !.failLog[s.scope] = Append(@, s.idx)]
    IN  EndPhase(s1, e)

\* A phase runner that keeps the first error record of a phase.
StepFailedKeepsFirstRecord(s, e) ==
    LET s1 == [s EXCEPT !.ctx = s.ctx @@ (ErrKey(s.scope) :> ErrRec(TheStep(s).name, e)),
                        !.stepRes = "failed", !.call = NoCall, !.tasks = <<>>,
                        !.failLog[s.scope] = Append(@, s.idx)]
    IN  IF TheStep(s).cont_on_err
        THEN [s1 EXCEPT !.idx = s.idx + 1, !.pc = "loop"]
        ELSE EndPhase(s1, e)

\* A phase runner that stores None under the name of a failed step.
StepFailedStoresNone(s, e) ==
    LET s1 == [s EXCEPT !.ctx = (ErrKey(s.scope) :> ErrRec(TheStep(s).name, e)) @@
                                (TheStep(s).name :> NoneV) @@ s.ctx,
                        !.stepRes = "failed", !.call = NoCall, !.tasks = <<>>,
                        !.failLog[s.scope] = Append(@, s.idx)]
    IN  IF TheStep(s).cont_on_err
        THEN [s1 EXCEPT !.idx = s.idx + 1, !.pc = "loop"]
        ELSE EndPhase(s1, e)

\* The except clause of run_steps.
StepFailed(s, e) ==
    LET s1 == [s EXCEPT !.ctx = (ErrKey(s.scope) :> ErrRec(TheStep(s).name, e)) @@ s.ctx,
                        !.stepRes = "failed", !.call = NoCall, !.tasks = <<>>,
                        !.failLog[s.scope] = Append(@, s.idx)]
    IN  IF TheStep(s).cont_on_err
        THEN [s1 EXCEPT !.idx = s.idx + 1, !.pc = "loop"]
        ELSE EndPhase(s1, e)

\* ------------------------------------------------------ step executor
RECURSIVE Invoke(_, _)

\* A retry loop that gives up one attempt early (i == retries - 1).
AttemptFailedOneShort(s, e) ==
    LET s1 == [s EXCEPT !.fails = @ + 1]
    IN  IF s.att >= TheStep(s).retries - 1
        THEN StepFailed(s1, e)
        ELSE Invoke(s1, s.att + 1)

\* The except clause of _run_step: attempt s.att of step['func'] raised e.
AttemptFailed(s, e) ==
    LET s1 == [s EXCEPT !.fails = @ + 1]
    IN  IF s.att = TheStep(s).retries
        THEN StepFailed(s1, e)
        ELSE Invoke(s1, s.att + 1)

\* The body of a conditional step's closure, up to its first await.
cond_step(s) ==
    LET tbl == steps[s.scope]
        n == Len(tbl)
    IN  IF n < 2
        THEN AttemptFailed(s, Err("IndexError", s.scope, s.idx))
        ELSE LET prev_result == Get(s.ctx, tbl[n - 1].name)
                 branch == IF Truthy(prev_result) THEN 1 ELSE 2
                 step_func == TheStep(s).funcs[branch]
                 r == _get_step_args(step_func, s.ctx)
             IN  IF ~r.ok
                 THEN AttemptFailed(s, Err("KeyError", s.scope, s.idx))
                 ELSE [s EXCEPT !.pc = "await", !.inner = 0, !.calls = @ + 1,
                                !.call = [func |-> step_func, args |-> r.args,
                                          branch |-> IF branch = 1 THEN "on_true"
                                                     ELSE "on_false"]]

\* The body of a parallel step's closure, up to its gather.
parallel_step(s) ==
    LET funcs == TheStep(s).funcs
        res == [k \in DOMAIN funcs |-> _get_step_args(funcs[k], s.ctx)]
        bad == {k \in DOMAIN funcs : ~res[k].ok}
    IN  IF bad = {}
        THEN [s EXCEPT !.pc = "gather", !.calls = @ + Len(funcs),
                       !.launched = @ + Len(funcs), !.doneLog = <<>>,
                       !.tasks = [k \in DOMAIN funcs |->
                                    [st |-> "run", func |-> funcs[k],
                                     args |-> res[k].args, v |-> NoneV]]]
        ELSE LET k0 == CHOOSE k \in bad : \A j \in bad : k <= j
             IN  AttemptFailed([s EXCEPT !.calls = @ + (k0 - 1),
                                         !.launched = @ + (k0 - 1),
                                         !.orphans = @ + (k0 - 1)],
                               Err("KeyError", s.scope, s.idx))

\* Attempt i of the retry loop of _run_step: step['func'] is called.
Invoke(s, i) ==
    LET s1 == [s EXCEPT !.att = i, !.outerCalls = @ + 1]
        kind == TheStep(s).kind
    IN  IF kind = "plain" THEN [s1 EXCEPT !.pc = "await", !.calls = @ + 1]
        ELSE IF kind = "cond" THEN cond_step(s1)
        ELSE parallel_step(s1)

\* _run_step(step) as run_steps calls it: resolve the arguments, then loop.
_run_step(s) ==
    LET step == TheStep(s)
        r == IF step.kind = "plain" THEN _get_step_args(step.funcs[1], s.ctx)
             ELSE [ok |-> TRUE, args |-> <<>>]
    IN  IF ~r.ok
        THEN StepFailed(s, Err("KeyError", s.scope, s.idx))
        ELSE Invoke([s EXCEPT !.call = [func |-> IF step.kind = "plain"
                                                  THEN step.funcs[1] ELSE <<>>,
                                        args |-> r.args, branch |-> "none"]], 0)

\* ---------------------------------------------------- run-time actions
\* run(**kwargs): self.ctx.update(kwargs), then the NORMAL phase.
run(kwargs) ==
    /\ pc = "new"
    /\ ctx' = kwargs @@ ctx
    /\ pc' = "loop" /\ scope' = "normal" /\ idx' = 1
    /\ UNCHANGED <<steps, att, inner, call, tasks, orphans, pend, outcome>>
    /\ UNCHANGED hist

\* cancel(), called by the application at any moment before run ends.  A
\* second call writes the same value again and changes nothing.
cancel ==
    /\ pc # "done"
    /\ ~Truthy(Get(ctx, "cancel"))
    /\ ctx' = ("cancel" :> BoolV(TRUE)) @@ ctx
    /\ cancelInfo' = IF pc = "new" THEN cancelInfo
                     ELSE [scope |-> scope, started |-> Len(startLog[scope]),
                           busy |-> pc \in {"await", "gather"}, ctx |-> ctx]
    /\ UNCHANGED <<steps, pc, scope, idx, att, inner, call, tasks, orphans, pend, outcome>>
    /\ UNCHANGED <<startLog, phaseRes, broke, stepRes, outerCalls, calls, fails, lastRet,
                   lastStep, ctxAtStart, failLog, doneLog, launched, finished>>

\* A phase runner that does not look at the cancel flag.
run_steps_ignoring_cancel ==
    /\ pc = "loop"
    /\ UNCHANGED steps
    /\ LET s == Cur
       IN  IF idx > Len(steps[scope])
           THEN Becomes(EndPhase(s, OkRes))
           ELSE Becomes(_run_step([s EXCEPT !.startLog[scope] = Append(@, idx),
                                            !.stepRes = "running",
                                            !.outerCalls = 0, !.calls = 0,
                                            !.fails = 0, !.lastRet = NoneV,
                                            !.ctxAtStart = ctx,
                                            !.lastStep = [scope |-> scope,
                                                          idx |-> idx]]))

\* One turn of the for loop of run_steps: leave the loop, or start a step.
run_steps ==
    /\ pc = "loop"
    /\ UNCHANGED steps
    /\ LET s == Cur
       IN  IF idx > Len(steps[scope])
           THEN Becomes(EndPhase(s, OkRes))
           ELSE IF Truthy(Get(ctx, "cancel"))
           THEN Becomes(EndPhase([s EXCEPT !.broke[scope] = TRUE], OkRes))
           ELSE Becomes(_run_step([s EXCEPT !.startLog[scope] = Append(@, idx),
                                            !.stepRes = "running",
                                            !.outerCalls = 0, !.calls = 0,
                                            !.fails = 0, !.lastRet = NoneV,
                                            !.ctxAtStart = ctx,
                                            !.lastStep = [scope |-> scope,
                                                          idx |-> idx]]))

\* The awaited delegate returns v.
attempt_returns(v) ==
    /\ pc = "await"
    /\ UNCHANGED steps
    /\ Becomes(StepOk(Cur, v))

\* The awaited delegate raises, or its timeout elapses.
attempt_raises ==
    /\ pc = "await"
    /\ UNCHANGED steps
    /\ LET s == Cur
           e == Err("Exception", scope, idx)
       IN  IF TheStep(s).kind = "cond" /\ inner < TheStep(s).retries
           THEN Becomes([s EXCEPT !.inner = @ + 1, !.calls = @ + 1])
           ELSE Becomes(AttemptFailed(s, e))

\* A join that lists the results in the order the delegates returned.
task_returns_in_completion_order(k, v) ==
    /\ pc = "gather"
    /\ k \in DOMAIN tasks
    /\ tasks[k].st = "run"
    /\ UNCHANGED steps
    /\ LET t == [tasks EXCEPT ![k].st = "ok", ![k].v = v]
           log == Append(doneLog, [k |-> k, v |-> v])
           s == [Cur EXCEPT !.tasks = t, !.finished = @ + 1, !.doneLog = log]
       IN  IF \A j \in DOMAIN t : t[j].st = "ok"
           THEN Becomes(StepOk(s, ListV([j \in DOMAIN log |-> log[j].v])))
           ELSE Becomes(s)

\* A delegate of the gathered parallel step returns v.
task_returns(k, v) ==
    /\ pc = "gather"
    /\ k \in DOMAIN tasks
    /\ tasks[k].st = "run"
    /\ UNCHANGED steps
    /\ LET t == [tasks EXCEPT ![k].st = "ok", ![k].v = v]
           s == [Cur EXCEPT !.tasks = t, !.finished = @ + 1,
                            !.doneLog = Append(@, [k |-> k, v |-> v])]
       IN  IF \A j \in DOMAIN t : t[j].st = "ok"
           THEN Becomes(StepOk(s, ListV([j \in DOMAIN t |-> t[j].v])))
           ELSE Becomes(s)

\* A gather that cancels the delegates still running when one raises.
task_raises_cancelling(k) ==
    /\ pc = "gather"
    /\ k \in DOMAIN tasks
    /\ tasks[k].st = "run"
    /\ UNCHANGED steps
    /\ LET s == [Cur EXCEPT !.tasks = <<>>, !.finished = @ + 1]
       IN  Becomes(AttemptFailed(s, Err("Exception", scope, idx)))

\* A delegate of the gathered parallel step raises: gather raises at once
\* and leaves the other delegates running.
task_raises(k) ==
    /\ pc = "gather"
    /\ k \in DOMAIN tasks
    /\ tasks[k].st = "run"
    /\ UNCHANGED steps
    /\ LET left == Cardinality({j \in DOMAIN tasks : j # k /\ tasks[j].st = "run"})
           s == [Cur EXCEPT !.orphans = @ + left, !.tasks = <<>>,
                            !.finished = @ + 1]
       IN  Becomes(AttemptFailed(s, Err("Exception", scope, idx)))

\* A delegate nobody waits for any more ends.
orphan_ends ==
    /\ orphans > 0
    /\ orphans' = orphans - 1
    /\ finished' = finished + 1
    /\ UNCHANGED <<steps, ctx, pc, scope, idx, att, inner, call, tasks, pend, outcome>>
    /\ UNCHANGED <<startLog, phaseRes, broke, stepRes, outerCalls, calls, fails, lastRet,
                   lastStep, ctxAtStart, failLog, doneLog, launched, cancelInfo>>

\* ------------------------------------------------------ specification
Retries == 0..MaxRetries
FuncLists(F) == UNION {[1..n -> F] : n \in 1..MaxPar}

\* What the engine does once run was called.
Engine ==
    \/ cancel
    \/ run_steps
    \/ \E v \in Results : attempt_returns(v)
    \/ attempt_raises

\* Workflows of plain steps in the three scopes: the phase runner, the retry
\* loop and the run controller.
Next ==
    \/ \E sc \in Scopes, n \in {"a", "b"}, r \in Retries, c \in BOOLEAN :
          add_step(<<>>, sc, n, r, c)
    \/ \E n \in {"a", "b"}, r \in Retries : add_error_step(<<>>, n, r)
    \/ \E n \in {"a", "b"}, r \in Retries : add_exit_step(<<>>, n, r)
    \/ run(<<>>)
    \/ Engine

Spec == Init /\ [][Next]_vars

\* Workflows of plain steps whose delegates take arguments from the context.
NextData ==
    \/ \E f \in Funcs \cup {<<"a", "b">>}, sc \in {"normal", "exit"}, n \in Names :
          add_step(f, sc, n, 0, FALSE)
    \/ \E kw \in Kwargs : run(kw)
    \/ Engine

SpecData == Init /\ [][NextData]_vars

\* Workflows with conditional steps.
NextCond ==
    \/ \E sc \in {"normal", "exit"}, n \in {"a", "b"} :
          add_step(<<>>, sc, n, 0, FALSE)
    \/ \E n \in {"a", "b"}, t \in {<<>>, <<"a">>}, f \in {<<>>, <<"a">>},
          sc \in {"normal", "exit"}, r \in Retries :
          add_cond_step(n, t, f, sc, r)
    \/ run(<<>>)
    \/ Engine

SpecCond == Init /\ [][NextCond]_vars

\* Workflows with parallel steps.
NextPar ==
    \/ \E sc \in {"normal", "exit"} : add_step(<<>>, sc, "a", 0, FALSE)
    \/ \E fs \in FuncLists({<<>>, <<"a">>}), r \in Retries :
          add_parallel_steps("b", fs, "normal", r)
    \/ run(<<>>)
    \/ Engine
    \/ \E k \in 1..MaxPar, v \in Results : task_returns(k, v)
    \/ \E k \in 1..MaxPar : task_raises(k)
    \/ orphan_ends

SpecPar == Init /\ [][NextPar]_vars

\* ---------------------------------------------------------- properties
Failure(r) == r.kind \notin {"none", "ok", "notrun", "returned"}
LastStep == steps[lastStep.scope][lastStep.idx]
Active == pc \in {"loop", "await", "gather"}
Busy == pc \in {"await", "gather"}
IsTrue(c, k) == k \in DOMAIN c /\ c[k] = BoolV(TRUE)

\* C1: in every phase the steps started so far are steps 1, 2, ..., k of the
\* phase's registration order, started in that order, and a step is started
\* only when the step before it has finished or failed: the one step in
\* progress, if any, is the last one started.
C1_RegistrationOrder ==
    /\ \A sc \in Scopes :
          /\ Len(startLog[sc]) <= Len(steps[sc])
          /\ \A i \in DOMAIN startLog[sc] : startLog[sc][i] = i
    /\ Busy => stepRes = "running" /\ Len(startLog[scope]) = idx
    /\ pc = "loop" => stepRes # "running" /\ Len(startLog[scope]) = idx - 1

\* Three steps of one phase were started, one of them failed and the phase
\* continued past it.
C1_Witness ==
    /\ Len(startLog["normal"]) = 3
    /\ "normal_error" \in DOMAIN ctx

\* C2: when run has returned or raised and an EXIT step is registered, the
\* first EXIT step was invoked, however the earlier phases ended.
C2_ExitStepsAlwaysRun ==
    pc = "done" /\ Len(steps["exit"]) > 0 => Len(startLog["exit"]) > 0

\* C3: the phases run in the order NORMAL, ERROR, EXIT: an ERROR step starts
\* only after the NORMAL phase ended with a failure, an EXIT step only after
\* the NORMAL phase and (when it runs) the ERROR phase ended, and nothing of
\* a phase runs once the phase has ended.
C3_PhaseOrder ==
    /\ startLog["error"] # <<>> => Failure(phaseRes["normal"])
    /\ Active /\ scope = "error" => Failure(phaseRes["normal"])
    /\ startLog["exit"] # <<>> \/ (Active /\ scope = "exit") =>
          /\ phaseRes["normal"] # NotRun
          /\ startLog["error"] # <<>> => phaseRes["error"] # NotRun
          /\ Failure(phaseRes["normal"])
                /\ (Len(steps["error"]) > 0 \/ Len(steps["exit"]) > 0)
             => phaseRes["error"] # NotRun
    /\ \A sc \in Scopes : phaseRes[sc] # NotRun => ~(Active /\ scope = sc)

\* A run in which steps of all three phases were started.
C3_Witness ==
    \A sc \in Scopes : startLog[sc] # <<>>

\* C4: a step whose delegate failed on every attempt was invoked exactly
\* retries + 1 times when its failure reaches the phase runner; a step that
\* succeeded was invoked exactly k times, k - 1 <= retries of them failing,
\* and is stored with the value of attempt k; until then no failure surfaces.
C4_RetryCount ==
    /\ stepRes = "failed" /\ outerCalls > 0 =>
          /\ outerCalls = LastStep.retries + 1
          /\ fails = outerCalls
    /\ stepRes = "ok" =>
          /\ outerCalls = fails + 1
          /\ outerCalls <= LastStep.retries + 1
          /\ ctx[LastStep.name] = lastRet
    /\ stepRes = "running" /\ LastStep.kind = "plain" =>
          /\ outerCalls = fails + 1
          /\ outerCalls <= LastStep.retries + 1

\* A step registered with retries >= 1 has failed after retries + 1 calls.
C4_Witness ==
    /\ stepRes = "failed"
    /\ LastStep.retries >= 1
    /\ outerCalls = LastStep.retries + 1
    /\ ErrKey(lastStep.scope) \in DOMAIN ctx

\* The result of a successful step is in the context under the step's name
\* until the next step starts.
C5_Stored ==
    stepRes = "ok" => LastStep.name \in DOMAIN ctx /\ ctx[LastStep.name] = lastRet

\* C5 as stated: a successful step's result is in the context under the
\* step's name until the next step starts, and every parameter of an invoked
\* delegate whose name is a key of the context receives the value stored
\* under that name.
C5_ResultFeedsSameNamedParameter ==
    /\ C5_Stored
    /\ pc = "await" =>
          \A i \in DOMAIN call.func :
             call.func[i] \in DOMAIN ctx =>
                i \in DOMAIN call.args /\ call.args[i] = ctx[call.func[i]]

\* C5 as amended: the same for a delegate that declares no parameter named
\* ctx; a delegate that declares one is passed the context object alone.
C5_ResultFeedsParameterUnlessCtx ==
    /\ C5_Stored
    /\ pc = "await" =>
          IF \E i \in DOMAIN call.func : call.func[i] = "ctx"
          THEN call.args = <<CtxRef>>
          ELSE /\ DOMAIN call.args = DOMAIN call.func
               /\ \A i \in DOMAIN call.func :
                     /\ call.func[i] \in DOMAIN ctx
                     /\ call.args[i] = ctx[call.func[i]]

\* The third step of the phase takes a parameter a; two steps named a ran
\* before it, and it is invoked with the value the second one stored.
C5_Witness ==
    /\ pc = "await" /\ scope = "normal" /\ idx = 3
    /\ steps["normal"][1].name = "a" /\ steps["normal"][2].name = "a"
    /\ call.func = <<"a">>
    /\ lastRet = NoneV
    /\ call.args = <<BoolV(FALSE)>>

\* C6: once the NORMAL phase has propagated a failure in a workflow with no
\* ERROR and no EXIT step, error is true in the context, no ERROR or EXIT
\* step is started, and run raises that very failure.
C6_ReraiseWithoutHandlers ==
    Failure(phaseRes["normal"]) /\ Len(steps["error"]) = 0 /\ Len(steps["exit"]) = 0 =>
       /\ IsTrue(ctx, "error")
       /\ startLog["error"] = <<>> /\ startLog["exit"] = <<>>
       /\ phaseRes["error"] = NotRun
       /\ pc = "done" => outcome = phaseRes["normal"]

\* run has raised the failure of the second NORMAL step.
C6_Witness ==
    /\ pc = "done"
    /\ Len(steps["error"]) = 0 /\ Len(steps["exit"]) = 0
    /\ outcome = Err("Exception", "normal", 2)
    /\ IsTrue(ctx, "error")

\* C7: when the NORMAL phase propagated a failure, an ERROR step is
\* registered and the ERROR and EXIT phases ended without failure, run
\* returns normally with error = true, every ERROR step was run, and every
\* EXIT step was run after them.
C7_HandledFailure ==
    /\ pc = "done"
    /\ Failure(phaseRes["normal"])
    /\ Len(steps["error"]) > 0
    /\ phaseRes["error"] = OkRes /\ phaseRes["exit"] = OkRes
    => /\ outcome = Returned
       /\ IsTrue(ctx, "error")
       /\ Len(startLog["error"]) = Len(steps["error"])
       /\ Len(startLog["exit"]) = Len(steps["exit"])

\* C8: what cancel() leaves alone and what it stops.
Cancelled == cancelInfo.scope \in Scopes

\* No step of the phase is started after cancel().
C8_NoNewStep ==
    Cancelled => Len(startLog[cancelInfo.scope]) = cancelInfo.started

\* The results stored when cancel() was called are still there; only the
\* step then in progress may write its own name.
C8_ResultsKept ==
    Cancelled =>
       \A k \in DOMAIN cancelInfo.ctx \cap Names :
          /\ k \in DOMAIN ctx
          /\ ctx[k] # cancelInfo.ctx[k] =>
                cancelInfo.busy /\ k = LastStep.name /\ stepRes = "ok"

\* The step in progress at cancel() is the last step started.
C8_InProgressIsLast ==
    Cancelled /\ cancelInfo.busy =>
       lastStep = [scope |-> cancelInfo.scope, idx |-> cancelInfo.started]

\* C8 as stated: no new step, the phase ends without error, the step in
\* progress completes and its result is stored under its name, the earlier
\* results remain.
C8_CancelStopsPhaseWithoutError ==
    /\ C8_NoNewStep
    /\ C8_ResultsKept
    /\ C8_InProgressIsLast
    /\ Cancelled /\ phaseRes[cancelInfo.scope] # NotRun =>
          phaseRes[cancelInfo.scope] = OkRes
    /\ Cancelled /\ cancelInfo.busy /\ stepRes # "running" =>
          /\ stepRes = "ok"
          /\ ctx[LastStep.name] = lastRet

\* C8 as amended: the step in progress runs all its attempts and ends as any
\* step does: stored if it succeeds, recorded in {scope}_error if it fails,
\* and then propagated out of the phase unless continue_on_error is set;
\* the phase ends without error otherwise.
C8_CancelStopsPhase ==
    /\ C8_NoNewStep
    /\ C8_ResultsKept
    /\ C8_InProgressIsLast
    /\ Cancelled /\ phaseRes[cancelInfo.scope] # NotRun =>
          \/ phaseRes[cancelInfo.scope] = OkRes
          \/ /\ cancelInfo.busy
             /\ stepRes = "failed"
             /\ ~LastStep.cont_on_err
             /\ phaseRes[cancelInfo.scope] = ctx[ErrKey(cancelInfo.scope)].error
    /\ Cancelled /\ cancelInfo.busy /\ stepRes = "ok" =>
          /\ ctx[LastStep.name] = lastRet
          /\ outerCalls = fails + 1
    /\ Cancelled /\ cancelInfo.busy /\ stepRes = "failed" =>
          /\ outerCalls = LastStep.retries + 1
          /\ fails = LastStep.retries + 1
          /\ ctx[ErrKey(cancelInfo.scope)] =
                ErrRec(LastStep.name,
                       Err("Exception", cancelInfo.scope, cancelInfo.started))
          /\ LastStep.cont_on_err => phaseRes[cancelInfo.scope] \in {NotRun, OkRes}

\* cancel() came during the first attempt of the first of two NORMAL steps;
\* the step failed once, succeeded on its retry and was stored, the second
\* step was never started and the phase ended without error.
C8_Witness ==
    /\ Cancelled /\ cancelInfo.busy /\ cancelInfo.scope = "normal"
    /\ cancelInfo.started = 1 /\ Len(steps["normal"]) = 2
    /\ stepRes = "ok" /\ fails = 1
    /\ ctx[LastStep.name] = lastRet
    /\ phaseRes["normal"] = OkRes /\ broke["normal"]
    /\ startLog["normal"] = <<1>>

\* C9: a conditional step that has a step registered before it in its phase
\* runs on_true exactly when the value stored under that step's name is
\* truthy, and its result is stored under its own name.
C9_CondReadsPrecedingStep ==
    /\ pc = "await" /\ steps[scope][idx].kind = "cond" /\ idx >= 2 =>
          call.branch = IF Truthy(Get(ctx, steps[scope][idx - 1].name))
                        THEN "on_true" ELSE "on_false"
    /\ stepRes = "ok" /\ LastStep.kind = "cond" => ctx[LastStep.name] = lastRet

\* C10: a conditional step registered first in its phase runs on_false and
\* never fails for want of a preceding step.
C10_FirstCondRunsOnFalse ==
    /\ pc = "await" /\ steps[scope][idx].kind = "cond" /\ idx = 1 =>
          call.branch = "on_false"
    /\ \A sc \in Scopes :
          ErrKey(sc) \in DOMAIN ctx => ctx[ErrKey(sc)].error.kind # "IndexError"

\* The value delegate i of the current gather returned.
ReturnedBy(i) ==
    doneLog[CHOOSE j \in DOMAIN doneLog : doneLog[j].k = i].v

\* C11: a parallel step is not complete while one of its delegates has not
\* returned; when it completes, each of its n delegates has returned once
\* and the value stored under its name is the n-element list whose i-th
\* element is what delegate i returned, in whatever order they returned.
C11_FanOutJoinsInInputOrder ==
    /\ pc = "gather" =>
          /\ stepRes = "running"
          /\ \E k \in DOMAIN tasks : tasks[k].st = "run"
          /\ Len(doneLog) < Len(steps[scope][idx].funcs)
    /\ stepRes = "ok" /\ LastStep.kind = "par" =>
          LET n == Len(LastStep.funcs)
          IN  /\ Len(doneLog) = n
              /\ \A i \in 1..n : \E j \in DOMAIN doneLog : doneLog[j].k = i
              /\ ctx[LastStep.name] = ListV([i \in 1..n |-> ReturnedBy(i)])

\* The second delegate returned TRUE before the first returned FALSE, and
\* the list stored is <<FALSE, TRUE>>.
C11_Witness ==
    /\ stepRes = "ok" /\ LastStep.kind = "par"
    /\ doneLog = <<[k |-> 2, v |-> BoolV(TRUE)], [k |-> 1, v |-> BoolV(FALSE)]>>
    /\ ctx[LastStep.name] = ListV(<<BoolV(FALSE), BoolV(TRUE)>>)

\* The failure of the step last started is recorded in its phase's slot.
C12_Recorded ==
    stepRes = "failed" =>
       /\ ErrKey(lastStep.scope) \in DOMAIN ctx
       /\ ctx[ErrKey(lastStep.scope)].step = LastStep.name
       /\ ctx[ErrKey(lastStep.scope)].error.scope = lastStep.scope
       /\ ctx[ErrKey(lastStep.scope)].error.idx = lastStep.idx

\* A failed step without continue_on_error is the last step its phase
\* started, and its failure is what the phase propagated.
C12_Aborts ==
    \A sc \in Scopes : \A j \in DOMAIN failLog[sc] :
       LET i == failLog[sc][j]
       IN  ~steps[sc][i].cont_on_err =>
              /\ Len(startLog[sc]) = i
              /\ Failure(phaseRes[sc])
              /\ phaseRes[sc] = ctx[ErrKey(sc)].error
              /\ phaseRes[sc].idx = i

\* The phase does not fail because of a failed continue_on_error step.
C12_NoFailureFromContinued ==
    \A sc \in Scopes : \A j \in DOMAIN failLog[sc] :
       LET i == failLog[sc][j]
       IN  steps[sc][i].cont_on_err /\ Failure(phaseRes[sc]) => phaseRes[sc].idx # i

\* C12 as stated: a failed step is recorded in {scope}_error; without
\* continue_on_error no later step of the phase is started and the failure
\* is propagated; with it the phase does not fail because of the step and
\* does not end before the next step of the phase, if there is one, was
\* started.
C12_ContinueStartsNextStep ==
    /\ C12_Recorded
    /\ C12_Aborts
    /\ C12_NoFailureFromContinued
    /\ \A sc \in Scopes : \A j \in DOMAIN failLog[sc] :
          LET i == failLog[sc][j]
          IN  steps[sc][i].cont_on_err /\ i < Len(steps[sc]) /\ phaseRes[sc] # NotRun
                 => Len(startLog[sc]) > i

\* C12 as amended: the same, but after a failed continue_on_error step the
\* phase may end without starting the next step when cancel() was called:
\* it then leaves its loop through the cancel break, without failure.
C12_ContinueStartsNextStepUnlessCancelled ==
    /\ C12_Recorded
    /\ C12_Aborts
    /\ C12_NoFailureFromContinued
    /\ \A sc \in Scopes : \A j \in DOMAIN failLog[sc] :
          LET i == failLog[sc][j]
          IN  steps[sc][i].cont_on_err /\ i < Len(steps[sc]) /\ phaseRes[sc] # NotRun
                 => \/ Len(startLog[sc]) > i
                    \/ /\ broke[sc] /\ IsTrue(ctx, "cancel")
                       /\ phaseRes[sc] = OkRes

\* The first NORMAL step failed with continue_on_error and the second was
\* started; the second failed without it, the third was never started and
\* the phase propagated the second step's failure.
C12_Witness ==
    /\ Len(steps["normal"]) = 3
    /\ failLog["normal"] = <<1, 2>>
    /\ steps["normal"][1].cont_on_err /\ ~steps["normal"][2].cont_on_err
    /\ startLog["normal"] = <<1, 2>>
    /\ phaseRes["normal"] = Err("Exception", "normal", 2)
    /\ ~IsTrue(ctx, "cancel")

\* C13: when the EXIT phase has failed, run raises the EXIT failure, also
\* when a NORMAL or an ERROR failure came before it; the earlier failures
\* are still in the context's error records, and error is true.
C13_ExitFailureSupersedes ==
    pc = "done" /\ Failure(phaseRes["exit"]) =>
       /\ outcome = phaseRes["exit"]
       /\ outcome.scope = "exit"
       /\ \A sc \in {"normal", "error"} :
             Failure(phaseRes[sc]) =>
                /\ ErrKey(sc) \in DOMAIN ctx
                /\ ctx[ErrKey(sc)].error = phaseRes[sc]
       /\ Failure(phaseRes["normal"]) => IsTrue(ctx, "error")

\* The NORMAL, the ERROR and the EXIT phase failed in turn, the ERROR
\* failure was pending, and run raised the EXIT failure.
C13_Witness ==
    /\ pc = "done"
    /\ phaseRes["normal"] = Err("Exception", "normal", 1)
    /\ phaseRes["error"] = Err("Exception", "error", 1)
    /\ pend = Err("Exception", "error", 1)
    /\ outcome = Err("Exception", "exit", 1)
    /\ ctx["error_error"].error = pend

\* C14: when a step has failed because a declared parameter is not a key of
\* the context, no delegate of a plain or conditional step was invoked, and
\* the delegates of a parallel step were invoked fewer times than it has
\* delegates: the unresolved one not at all, the others at most once each.
C14_ResolutionFailureNotRetried ==
    stepRes = "failed" /\ ctx[ErrKey(lastStep.scope)].error.kind = "KeyError" =>
       calls <= IF LastStep.kind = "par" THEN Len(LastStep.funcs) - 1 ELSE 0

\* C15: when a conditional step has failed because its chosen branch
\* delegate raised on every attempt, the delegate was invoked exactly
\* retries + 1 times.
C15_BranchInvokedRetriesPlusOne ==
    /\ stepRes = "failed" /\ LastStep.kind = "cond"
    /\ ctx[ErrKey(lastStep.scope)].error.kind = "Exception"
    => calls = LastStep.retries + 1

\* The delegates the current gather is waiting for.
Running == Cardinality({k \in DOMAIN tasks : tasks[k].st = "run"})

\* C16: a gather never goes on waiting once a delegate has raised: every
\* delegate it has seen end has returned; the failure of a parallel step
\* is its delegates' failure, after retries + 1 attempts; and no delegate is
\* ever cancelled: every delegate started is still awaited, or still
\* running unawaited, or has run to its end.
C16_FailFastWithoutCancelling ==
    /\ launched = finished + Running + orphans
    /\ pc = "gather" =>
          Cardinality({k \in DOMAIN tasks : tasks[k].st = "ok"}) = Len(doneLog)
    /\ pc # "gather" => tasks = <<>>
    /\ stepRes = "failed" /\ LastStep.kind = "par" =>
          /\ fails = LastStep.retries + 1
          /\ ctx[ErrKey(lastStep.scope)] \in
                {ErrRec(LastStep.name, Err(kd, lastStep.scope, lastStep.idx)) :
                    kd \in {"Exception", "KeyError"}}
          /\ phaseRes[lastStep.scope] = ctx[ErrKey(lastStep.scope)].error

\* One of the two delegates of a NORMAL parallel step raised, the step
\* failed and the NORMAL phase with it; the other delegate is still running
\* while a step of the EXIT phase is in progress.
C16_Witness ==
    /\ pc = "await" /\ scope = "exit"
    /\ orphans = 1 /\ launched = 2 /\ finished = 1
    /\ \E i \in DOMAIN steps["normal"] :
          /\ steps["normal"][i].kind = "par"
          /\ phaseRes["normal"] = Err("Exception", "normal", i)

\* C17: the ERROR phase follows the continue/abort rule of every phase; no
\* ERROR step is started twice and nothing of the ERROR phase runs once it
\* has ended; when run has ended after the ERROR phase failed, the EXIT
\* phase was run (its first step, if it has one, was started) and run
\* raised the ERROR failure, or the EXIT failure if the EXIT phase failed.
C17_ErrorPhaseFailure ==
    /\ C12_Aborts
    /\ C12_NoFailureFromContinued
    /\ \A i, j \in DOMAIN startLog["error"] :
          i # j => startLog["error"][i] # startLog["error"][j]
    /\ phaseRes["error"] # NotRun => ~(Active /\ scope = "error")
    /\ pc = "done" /\ Failure(phaseRes["error"]) =>
          /\ phaseRes["exit"] # NotRun
          /\ Len(steps["exit"]) > 0 => Len(startLog["exit"]) > 0
          /\ outcome = IF Failure(phaseRes["exit"]) THEN phaseRes["exit"]
                       ELSE phaseRes["error"]

\* C18: the slot {scope}_error of a phase is absent as long as no step of
\* that phase has failed, and otherwise holds the name and the failure of
\* the step of that phase that failed last, whatever happened in the other
\* phases and whatever steps succeeded since.
C18_OneSlotPerPhase ==
    \A sc \in Scopes :
       IF failLog[sc] = <<>>
       THEN ErrKey(sc) \notin DOMAIN ctx
       ELSE LET i == failLog[sc][Len(failLog[sc])]
            IN  /\ ErrKey(sc) \in DOMAIN ctx
                /\ ctx[ErrKey(sc)].step = steps[sc][i].name
                /\ ctx[ErrKey(sc)].error.scope = sc
                /\ ctx[ErrKey(sc)].error.idx = i

\* The NORMAL steps a and b failed in turn with continue_on_error, a third
\* step succeeded, and normal_error names b; no other slot was written.
C18_Witness ==
    /\ failLog["normal"] = <<1, 2>>
    /\ steps["normal"][1].name = "a" /\ steps["normal"][2].name = "b"
    /\ stepRes = "ok" /\ lastStep = [scope |-> "normal", idx |-> 3]
    /\ ctx["normal_error"] = ErrRec("b", Err("Exception", "normal", 2))
    /\ "error_error" \notin DOMAIN ctx /\ "exit_error" \notin DOMAIN ctx

\* C19: once the NORMAL phase has propagated a failure in a workflow with
\* no ERROR step and at least one EXIT step, error is true and normal_error
\* holds the failure, no ERROR step runs, and when run has ended the ERROR
\* phase was run and ended without failure, the EXIT phase was run (its
\* first step was started), run did not raise the NORMAL failure, and it
\* returned normally if the EXIT phase did not fail.
C19_NormalFailureNotRaised ==
    Failure(phaseRes["normal"]) /\ Len(steps["error"]) = 0 /\ Len(steps["exit"]) > 0 =>
       /\ IsTrue(ctx, "error")
       /\ "normal_error" \in DOMAIN ctx
       /\ ctx["normal_error"].error = phaseRes["normal"]
       /\ startLog["error"] = <<>>
       /\ pend = NoErr
       /\ pc = "done" =>
             /\ phaseRes["error"] = OkRes
             /\ phaseRes["exit"] # NotRun
             /\ Len(startLog["exit"]) > 0
             /\ outcome # phaseRes["normal"]
             /\ phaseRes["exit"] = OkRes => outcome = Returned

\* C20: when the step last started has failed, every key of the context
\* other than its phase's error slot, error and the application's cancel
\* flag is as it was when the step started, the step's own name included
\* (same value, or still absent); and error differs only after a NORMAL
\* failure that was propagated.
C20_FailedStepWritesNothing ==
    stepRes = "failed" =>
       /\ \A k \in (DOMAIN ctx \cup DOMAIN ctxAtStart)
                     \ {ErrKey(lastStep.scope), "error", "cancel"} :
             /\ k \in DOMAIN ctx <=> k \in DOMAIN ctxAtStart
             /\ k \in DOMAIN ctx => ctx[k] = ctxAtStart[k]
       /\ ErrKey(lastStep.scope) \in DOMAIN ctx
       /\ ctx["error"] # ctxAtStart["error"] =>
             /\ lastStep.scope = "normal"
             /\ ~LastStep.cont_on_err
             /\ phaseRes["normal"] = ctx["normal_error"].error
             /\ IsTrue(ctx, "error")

\* Two NORMAL steps named a: the first stored TRUE, the second failed on
\* both its attempts and the phase propagated its failure; a still holds
\* TRUE and error has become true.
C20_Witness ==
    /\ stepRes = "failed" /\ lastStep = [scope |-> "normal", idx |-> 2]
    /\ steps["normal"][1].name = "a" /\ steps["normal"][2].name = "a"
    /\ fails = 2
    /\ ctx["a"] = BoolV(TRUE) /\ ctxAtStart["a"] = BoolV(TRUE)
    /\ ~IsTrue(ctxAtStart, "error") /\ IsTrue(ctx, "error")

====
